---- MODULE Spec2Model ----
(***************************************************************************)
(* Model of the task-flow validation and rendering engine                  *)
(* (lib/tools/builder.py) and of the TaskFlow serialization                *)
(* (lib/schema.py).                                                        *)
(*                                                                         *)
(* The functions are pure; the state machine is a caller that holds a      *)
(* flow (an untyped description received from the producer, or a typed     *)
(* TaskFlow), invokes one function on it when idle, and then holds the     *)
(* outcome (a returned value or a raised exception) until it returns to    *)
(* idle.                                                                   *)
(***************************************************************************)
EXTENDS Integers, Sequences, FiniteSets, TLC

VARIABLES held, op, result, calls

vars == <<held, op, result, calls>>

(***************************************************************************)
(* Python values.  A str is kept as its sequence of tokens: every          *)
(* whitespace character and every double quote is a token of its own and   *)
(* every maximal run of other characters is one token, so two strs are     *)
(* equal exactly when their token sequences are.  A dict is kept as the    *)
(* function from its present keys to their values.                         *)
(***************************************************************************)
PyNone == [k |-> "NoneType"]

PyStr(toks) == [k |-> "str", s |-> toks]

PyInt(n) == [k |-> "int", i |-> n]

PyList(items) == [k |-> "list", items |-> items]

PyDict(d) == [k |-> "dict", d |-> d]

EmptyDict == PyDict([x \in {} |-> PyNone])

\* isinstance(v, dict) / isinstance(v, list)
IsDict(v) == v.k = "dict"

IsList(v) == v.k = "list"

IsStr(v) == v.k = "str"

\* key in d   (d a dict)
HasKey(d, key) == key \in DOMAIN d.d

\* d.get(key, default)
GetOr(d, key, default) == IF HasKey(d, key) THEN d.d[key] ELSE default

\* d.get(key)
Get(d, key) == GetOr(d, key, PyNone)

\* bool(v)
Truthy(v) ==
    CASE v.k = "NoneType" -> FALSE
      [] v.k = "str"      -> v.s # <<>>
      [] v.k = "int"      -> v.i # 0
      [] v.k = "list"     -> v.items # <<>>
      [] v.k = "dict"     -> DOMAIN v.d # {}

\* hash(v) is defined: lists and dicts are unhashable
Hashable(v) == v.k \in {"NoneType", "str", "int"}

\* An outcome of a call: a returned value, or a raised exception.
Ret(v) == [ok |-> TRUE, val |-> v]

Raise(exc) == [ok |-> FALSE, exc |-> exc]

(***************************************************************************)
(* str operations                                                          *)
(***************************************************************************)
IsSpace(tok) == tok \in {" ", "\t", "\n"}

RECURSIVE LStrip(_)
LStrip(toks) ==
    IF toks # <<>> /\ IsSpace(Head(toks)) THEN LStrip(Tail(toks)) ELSE toks

RECURSIVE RStrip(_)
RStrip(toks) ==
    IF toks # <<>> /\ IsSpace(toks[Len(toks)])
    THEN RStrip(SubSeq(toks, 1, Len(toks) - 1))
    ELSE toks

\* s.strip()
Strip(toks) == RStrip(LStrip(toks))

\* s.replace('"', '\\"')
EscapeQuotes(toks) ==
    [i \in DOMAIN toks |-> IF toks[i] = "\"" THEN "\\\"" ELSE toks[i]]

\* The text of a str
RECURSIVE Render(_)
Render(toks) == IF toks = <<>> THEN "" ELSE Head(toks) \o Render(Tail(toks))

\* repr(v), for the values the model draws
RECURSIVE Repr(_)
RECURSIVE ReprItems(_)
ReprItems(items) ==
    IF items = <<>> THEN ""
    ELSE IF Len(items) = 1 THEN Repr(items[1])
    ELSE Repr(Head(items)) \o ", " \o ReprItems(Tail(items))

Repr(v) ==
    CASE v.k = "NoneType" -> "None"
      [] v.k = "str"      -> "'" \o Render(v.s) \o "'"
      [] v.k = "int"      -> ToString(v.i)
      [] v.k = "list"     -> "[" \o ReprItems(v.items) \o "]"
      [] v.k = "dict"     -> "{...}"

\* str(v), as an f-string formats it
Format(v) == IF v.k = "str" THEN Render(v.s) ELSE Repr(v)

\* type(v).__name__
TypeName(v) == v.k

S(word) == PyStr(<<word>>)

(***************************************************************************)
(* An insertion-ordered dict keyed by node id: a sequence of               *)
(* [key, val] entries.  Assigning an existing key keeps its position.      *)
(***************************************************************************)
KeyIndex(tbl, key) ==
    IF \E i \in DOMAIN tbl : tbl[i].key = key
    THEN CHOOSE i \in DOMAIN tbl : tbl[i].key = key
    ELSE 0

\* key in tbl
InTable(tbl, key) == KeyIndex(tbl, key) # 0

\* tbl[key] = val
TablePut(tbl, key, val) ==
    IF InTable(tbl, key)
    THEN [tbl EXCEPT ![KeyIndex(tbl, key)] = [key |-> key, val |-> val]]
    ELSE Append(tbl, [key |-> key, val |-> val])

\* {n["id"]: n for n in nodes_raw if isinstance(n, dict) and "id" in n}
\* raises TypeError when an id is unhashable
RECURSIVE NodeTableFrom(_, _)
NodeTableFrom(entries, tbl) ==
    IF entries = <<>> THEN Ret(tbl)
    ELSE LET n == Head(entries) IN
         IF IsDict(n) /\ HasKey(n, "id")
         THEN IF Hashable(n.d["id"])
              THEN NodeTableFrom(Tail(entries), TablePut(tbl, n.d["id"], n))
              ELSE Raise("TypeError")
         ELSE NodeTableFrom(Tail(entries), tbl)

NodeTable(entries) == NodeTableFrom(entries, <<>>)

\* [n for n in nodes.values() if n.get("type") == role]
NodesOfType(tbl, role) ==
    LET vals == [i \in DOMAIN tbl |-> tbl[i].val]
        Is(n) == Get(n, "type") = S(role)
    IN SelectSeq(vals, Is)

Issue(type, message) == [type |-> type, message |-> message]

(***************************************************************************)
(* validate_flow                                                           *)
(***************************************************************************)
\* edges = [e for e in edges_raw if isinstance(e, dict)]
DictEntries(entries) == SelectSeq(entries, IsDict)

\* CardinalityIssues with the start check reading len(start_nodes) > 1
CardinalityIssues_OnlyMany(tbl) ==
    LET start_nodes == NodesOfType(tbl, "start")
        end_nodes   == NodesOfType(tbl, "end")
    IN  (IF Len(tbl) = 0
         THEN <<Issue("no_nodes", "Flow has no valid node definitions.")>>
         ELSE <<>>)
        \o
        (IF Len(start_nodes) > 1
         THEN <<Issue("start_node_count",
                      "Flow should have exactly 1 start node, found "
                      \o ToString(Len(start_nodes)) \o ".")>>
         ELSE <<>>)
        \o
        (IF Len(end_nodes) = 0
         THEN <<Issue("end_node_count",
                      "Flow should have at least 1 end node, found 0.")>>
         ELSE <<>>)

\* STEP 1A/1B: no_nodes, start_node_count, end_node_count
CardinalityIssues(tbl) ==
    LET start_nodes == NodesOfType(tbl, "start")
        end_nodes   == NodesOfType(tbl, "end")
    IN  (IF Len(tbl) = 0
         THEN <<Issue("no_nodes", "Flow has no valid node definitions.")>>
         ELSE <<>>)
        \o
        (IF Len(start_nodes) # 1
         THEN <<Issue("start_node_count",
                      "Flow should have exactly 1 start node, found "
                      \o ToString(Len(start_nodes)) \o ".")>>
         ELSE <<>>)
        \o
        (IF Len(end_nodes) = 0
         THEN <<Issue("end_node_count",
                      "Flow should have at least 1 end node, found 0.")>>
         ELSE <<>>)

\* EdgeIssues with the target checked before the source
EdgeIssues_TargetFirst(tbl, e) ==
    LET src == Get(e, "from")
        tgt == Get(e, "to")
    IN  (IF ~InTable(tbl, tgt)
         THEN <<Issue("edge_target_missing",
                      "Edge has target '" \o Format(tgt)
                      \o "' which is not a node id.")>>
         ELSE <<>>)
        \o
        (IF ~InTable(tbl, src)
         THEN <<Issue("edge_source_missing",
                      "Edge has source '" \o Format(src)
                      \o "' which is not a node id.")>>
         ELSE <<>>)

\* The issues one edge adds in STEP 2
EdgeIssues(tbl, e) ==
    LET src == Get(e, "from")
        tgt == Get(e, "to")
    IN  (IF ~InTable(tbl, src)
         THEN <<Issue("edge_source_missing",
                      "Edge has source '" \o Format(src)
                      \o "' which is not a node id.")>>
         ELSE <<>>)
        \o
        (IF ~InTable(tbl, tgt)
         THEN <<Issue("edge_target_missing",
                      "Edge has target '" \o Format(tgt)
                      \o "' which is not a node id.")>>
         ELSE <<>>)

\* AdjacencyLoop recording an edge only when both of its ends resolve
RECURSIVE AdjacencyLoop_BothEnds(_, _, _)
AdjacencyLoop_BothEnds(edges, tbl, acc) ==
    IF edges = <<>> THEN Ret(acc)
    ELSE LET e   == Head(edges)
             src == Get(e, "from")
             tgt == Get(e, "to")
             si  == KeyIndex(tbl, src)
             ti  == KeyIndex(tbl, tgt)
             out1 == IF si # 0 /\ ti # 0
                     THEN [acc.outgoing EXCEPT ![si] = Append(@, e)]
                     ELSE acc.outgoing
             in1  == IF si # 0 /\ ti # 0
                     THEN [acc.incoming EXCEPT ![ti] = Append(@, e)]
                     ELSE acc.incoming
         IN  IF ~Hashable(src) \/ ~Hashable(tgt) THEN Raise("TypeError")
             ELSE AdjacencyLoop_BothEnds(Tail(edges), tbl,
                                [issues   |-> acc.issues \o EdgeIssues(tbl, e),
                                 incoming |-> in1,
                                 outgoing |-> out1])

\* STEP 2: the loop over the edges.  acc = [issues, incoming, outgoing],
\* incoming and outgoing indexed like the node table.  Looking an
\* unhashable src or tgt up in a dict raises TypeError.
RECURSIVE AdjacencyLoop(_, _, _)
AdjacencyLoop(edges, tbl, acc) ==
    IF edges = <<>> THEN Ret(acc)
    ELSE LET e   == Head(edges)
             src == Get(e, "from")
             tgt == Get(e, "to")
             si  == KeyIndex(tbl, src)
             ti  == KeyIndex(tbl, tgt)
             out1 == IF si # 0
                     THEN [acc.outgoing EXCEPT ![si] = Append(@, e)]
                     ELSE acc.outgoing
             in1  == IF ti # 0
                     THEN [acc.incoming EXCEPT ![ti] = Append(@, e)]
                     ELSE acc.incoming
         IN  IF ~Hashable(src) \/ ~Hashable(tgt) THEN Raise("TypeError")
             ELSE AdjacencyLoop(Tail(edges), tbl,
                                [issues   |-> acc.issues \o EdgeIssues(tbl, e),
                                 incoming |-> in1,
                                 outgoing |-> out1])

\* NodeEdgeIssues without the exemption of start nodes from the incoming check
NodeEdgeIssues_NoStartExemption(tbl, adj, i) ==
    LET node == tbl[i].val
        node_id == tbl[i].key
    IN  (IF Len(adj.incoming[i]) = 0
         THEN <<Issue("no_incoming_edge",
                      "Node '" \o Format(node_id)
                      \o "' has no incoming edges and is not the start node.")>>
         ELSE <<>>)
        \o
        (IF Get(node, "type") # S("end") /\ Len(adj.outgoing[i]) = 0
         THEN <<Issue("no_outgoing_edge",
                      "Node '" \o Format(node_id)
                      \o "' has no outgoing edges and is not an end node.")>>
         ELSE <<>>)

\* NodeEdgeIssues without the incoming check
NodeEdgeIssues_OutgoingOnly(tbl, adj, i) ==
    LET node == tbl[i].val
        node_id == tbl[i].key
    IN  IF Get(node, "type") # S("end") /\ Len(adj.outgoing[i]) = 0
        THEN <<Issue("no_outgoing_edge",
                     "Node '" \o Format(node_id)
                     \o "' has no outgoing edges and is not an end node.")>>
        ELSE <<>>

\* The issues one node adds in STEP 3
NodeEdgeIssues(tbl, adj, i) ==
    LET node == tbl[i].val
        node_id == tbl[i].key
    IN  (IF Get(node, "type") # S("start") /\ Len(adj.incoming[i]) = 0
         THEN <<Issue("no_incoming_edge",
                      "Node '" \o Format(node_id)
                      \o "' has no incoming edges and is not the start node.")>>
         ELSE <<>>)
        \o
        (IF Get(node, "type") # S("end") /\ Len(adj.outgoing[i]) = 0
         THEN <<Issue("no_outgoing_edge",
                      "Node '" \o Format(node_id)
                      \o "' has no outgoing edges and is not an end node.")>>
         ELSE <<>>)

\* CheckEdges skipped when an earlier step has found an issue
RECURSIVE CheckEdges_UnlessIssues(_, _, _)
CheckEdges_UnlessIssues(tbl, adj, i) ==
    IF i > Len(tbl) \/ adj.issues # <<>> THEN <<>>
    ELSE NodeEdgeIssues(tbl, adj, i) \o CheckEdges_UnlessIssues(tbl, adj, i + 1)

\* STEP 3: for node_id, node in nodes.items()
RECURSIVE CheckEdges(_, _, _)
CheckEdges(tbl, adj, i) ==
    IF i > Len(tbl) THEN <<>>
    ELSE NodeEdgeIssues(tbl, adj, i) \o CheckEdges(tbl, adj, i + 1)

\* EdgeCondition without the .strip()
EdgeCondition_NoStrip(e) ==
    LET c == Get(e, "condition") IN
    IF ~Truthy(c) THEN Ret(<<>>)
    ELSE IF IsStr(c) THEN Ret(c.s)
    ELSE Raise("AttributeError")

\* cond = (e.get("condition") or "").strip()
\* raises AttributeError when the condition is truthy and not a str
EdgeCondition(e) ==
    LET c == Get(e, "condition") IN
    IF ~Truthy(c) THEN Ret(<<>>)
    ELSE IF IsStr(c) THEN Ret(Strip(c.s))
    ELSE Raise("AttributeError")

\* STEP 4, inner loop: for e in outs
RECURSIVE ConditionIssues(_, _)
ConditionIssues(node, outs) ==
    IF outs = <<>> THEN Ret(<<>>)
    ELSE LET e == Head(outs)
             cond == EdgeCondition(e)
         IN  IF ~cond.ok THEN cond
             ELSE LET rest == ConditionIssues(node, Tail(outs)) IN
                  IF ~rest.ok THEN rest
                  ELSE Ret((IF cond.val = <<>>
                            THEN <<Issue("missing_condition",
                                         "Decision edge from '"
                                         \o Format(node.d["id"]) \o "' to '"
                                         \o Format(Get(e, "to"))
                                         \o "' should have a non-empty condition.")>>
                            ELSE <<>>) \o rest.val)

\* DecisionNodeIssues with the branch check reading len(outs) < 1
DecisionNodeIssues_OneBranch(tbl, adj, node) ==
    LET i == KeyIndex(tbl, node.d["id"])
        outs == IF i # 0 THEN adj.outgoing[i] ELSE <<>>
        conds == ConditionIssues(node, outs)
    IN  IF ~conds.ok THEN conds
        ELSE Ret((IF Len(outs) < 1
                  THEN <<Issue("decision_branch_count",
                               "Decision node '" \o Format(node.d["id"])
                               \o "' should have at least 2 outgoing edges.")>>
                  ELSE <<>>) \o conds.val)

\* The issues one decision node adds in STEP 4
DecisionNodeIssues(tbl, adj, node) ==
    LET i == KeyIndex(tbl, node.d["id"])
        outs == IF i # 0 THEN adj.outgoing[i] ELSE <<>>
        conds == ConditionIssues(node, outs)
    IN  IF ~conds.ok THEN conds
        ELSE Ret((IF Len(outs) < 2
                  THEN <<Issue("decision_branch_count",
                               "Decision node '" \o Format(node.d["id"])
                               \o "' should have at least 2 outgoing edges.")>>
                  ELSE <<>>) \o conds.val)

\* STEP 4: for node in decision_nodes
RECURSIVE CheckDecisions(_, _, _)
CheckDecisions(tbl, adj, decision_nodes) ==
    IF decision_nodes = <<>> THEN Ret(<<>>)
    ELSE LET first == DecisionNodeIssues(tbl, adj, Head(decision_nodes)) IN
         IF ~first.ok THEN first
         ELSE LET rest == CheckDecisions(tbl, adj, Tail(decision_nodes)) IN
              IF ~rest.ok THEN rest ELSE Ret(first.val \o rest.val)

Report(issues) == PyDict([valid |-> Len(issues) = 0, issues |-> issues])

\* validate_flow past the two shape gates
ValidateGraph(nodes_raw, edges_raw) ==
    LET nodes == NodeTable(nodes_raw) IN
    IF ~nodes.ok THEN nodes
    ELSE LET tbl   == nodes.val
             edges == DictEntries(edges_raw)
             empty == [i \in DOMAIN tbl |-> <<>>]
             adj   == AdjacencyLoop(edges, tbl,
                                    [issues   |-> CardinalityIssues(tbl),
                                     incoming |-> empty,
                                     outgoing |-> empty])
         IN  IF ~adj.ok THEN adj
             ELSE LET step3 == adj.val.issues \o CheckEdges(tbl, adj.val, 1)
                      step4 == CheckDecisions(tbl, adj.val,
                                              NodesOfType(tbl, "decision"))
                  IN  IF ~step4.ok THEN step4
                      ELSE Ret(Report(step3 \o step4.val))

\* validate_flow reading nodes and edges as flow.get(key, []), the way
\* flow_to_mermaid does
validate_flow_ListDefaults(flow) ==
    IF ~IsDict(flow)
    THEN Ret(Report(<<Issue("invalid_type",
                            "Flow must be a dict with 'nodes' and 'edges', but got "
                            \o TypeName(flow) \o ": " \o Repr(flow))>>))
    ELSE LET nodes_raw == GetOr(flow, "nodes", PyList(<<>>))
             edges_raw == GetOr(flow, "edges", PyList(<<>>))
         IN  IF ~IsList(nodes_raw) \/ ~IsList(edges_raw)
             THEN Ret(Report(<<Issue("invalid_structure",
                                     "Flow must have 'nodes' and 'edges' as lists. ")>>))
             ELSE ValidateGraph(nodes_raw.items, edges_raw.items)

validate_flow(flow) ==
    IF ~IsDict(flow)
    THEN Ret(Report(<<Issue("invalid_type",
                            "Flow must be a dict with 'nodes' and 'edges', but got "
                            \o TypeName(flow) \o ": " \o Repr(flow))>>))
    ELSE LET nodes_raw == Get(flow, "nodes")
             edges_raw == Get(flow, "edges")
         IN  IF ~IsList(nodes_raw) \/ ~IsList(edges_raw)
             THEN Ret(Report(<<Issue("invalid_structure",
                                     "Flow must have 'nodes' and 'edges' as lists. ")>>))
             ELSE ValidateGraph(nodes_raw.items, edges_raw.items)

(***************************************************************************)
(* flow_to_mermaid                                                         *)
(***************************************************************************)
InvalidFlowTitle == PyStr(<<"Invalid", " ", "Flow">>)

UntitledFlowTitle == PyStr(<<"Untitled", " ", "Flow">>)

Diagram(title, mermaid) == PyDict([title |-> title, mermaid |-> mermaid])

\* format_node: raises AttributeError when the label is truthy and not a str
format_node(node) ==
    LET l == Get(node, "label")
        node_id == Format(node.d["id"])
        node_type == Get(node, "type")
    IN  IF Truthy(l) /\ ~IsStr(l) THEN Raise("AttributeError")
        ELSE LET label == IF Truthy(l) THEN Render(EscapeQuotes(l.s)) ELSE "" IN
             IF node_type \in {S("start"), S("end")}
             THEN Ret(node_id \o "([" \o label \o "])")
             ELSE IF node_type = S("decision")
             THEN Ret(node_id \o "{" \o label \o "}")
             ELSE Ret(node_id \o "[" \o label \o "]")

\* for node_id in node_ids: lines.append(f" {format_node(node)}")
RECURSIVE NodeLines(_, _)
NodeLines(tbl, i) ==
    IF i > Len(tbl) THEN Ret(<<>>)
    ELSE LET line == format_node(tbl[i].val) IN
         IF ~line.ok THEN line
         ELSE LET rest == NodeLines(tbl, i + 1) IN
              IF ~rest.ok THEN rest ELSE Ret(<<" " \o line.val>> \o rest.val)

\* SkipEdge skipping the edges that lack a source or a target
SkipEdge_MissingEnd(src, tgt) == ~Truthy(src) \/ ~Truthy(tgt)

\* if not src or tgt: continue
SkipEdge(src, tgt) == ~Truthy(src) \/ Truthy(tgt)

\* The lines one entry of edges adds: none for a non-dict or skipped edge
EdgeLine(e) ==
    IF ~IsDict(e) THEN Ret(<<>>)
    ELSE LET src  == Get(e, "from")
             tgt  == Get(e, "to")
             cond == EdgeCondition(e)
         IN  IF ~cond.ok THEN cond
             ELSE IF SkipEdge(src, tgt) THEN Ret(<<>>)
             ELSE IF cond.val # <<>>
             THEN Ret(<<"     " \o Format(src) \o " -->|"
                        \o Render(EscapeQuotes(cond.val)) \o "| " \o Format(tgt)>>)
             ELSE Ret(<<"     " \o Format(src) \o " --> " \o Format(tgt)>>)

\* for e in edges
RECURSIVE EdgeLines(_)
EdgeLines(edges) ==
    IF edges = <<>> THEN Ret(<<>>)
    ELSE LET first == EdgeLine(Head(edges)) IN
         IF ~first.ok THEN first
         ELSE LET rest == EdgeLines(Tail(edges)) IN
              IF ~rest.ok THEN rest ELSE Ret(first.val \o rest.val)

\* "\n".join(lines)
RECURSIVE JoinLines(_)
JoinLines(lines) ==
    IF lines = <<>> THEN ""
    ELSE IF Len(lines) = 1 THEN lines[1]
    ELSE Head(lines) \o "\n" \o JoinLines(Tail(lines))

flow_to_mermaid(flow) ==
    IF ~IsDict(flow)
    THEN Ret(Diagram(InvalidFlowTitle,
                     "flowchart TD\n ERR[Invalid flow: not a dict]\n"))
    ELSE LET nodes == GetOr(flow, "nodes", PyList(<<>>))
             edges == GetOr(flow, "edges", PyList(<<>>))
         IN  IF ~IsList(nodes) \/ ~IsList(edges)
             THEN Ret(Diagram(GetOr(flow, "title", InvalidFlowTitle),
                              "flowchart TD\n ERR[Invalid flow: nodes/edges not lists]\n"))
             ELSE LET node_lookup == NodeTable(nodes.items) IN
                  IF ~node_lookup.ok THEN node_lookup
                  ELSE LET nlines == NodeLines(node_lookup.val, 1) IN
                       IF ~nlines.ok THEN nlines
                       ELSE LET elines == EdgeLines(edges.items) IN
                            IF ~elines.ok THEN elines
                            ELSE Ret(Diagram(GetOr(flow, "title", UntitledFlowTitle),
                                             JoinLines(<<"flowchart TD">>
                                                       \o nlines.val \o elines.val)))

(***************************************************************************)
(* build_task_flow.  The outcome and the functions it called, in order.    *)
(***************************************************************************)
ErrorDiagram == "flowchart TD\n ERR[Invalid flow input. See issues list.]\n"

Bundle(validation, mermaid, title) ==
    PyDict([validation |-> validation, mermaid |-> mermaid, title |-> title])

\* build_task_flow compiling the diagram of an invalid flow too
build_task_flow_CompilesInvalid(flow) ==
    LET validation == validate_flow(flow) IN
    IF ~validation.ok
    THEN [out |-> validation, calls |-> <<"validate_flow">>]
    ELSE LET mermaid_results == flow_to_mermaid(flow) IN
         [out   |-> IF ~mermaid_results.ok THEN mermaid_results
                    ELSE Ret(Bundle(validation.val,
                                    mermaid_results.val.d.mermaid,
                                    mermaid_results.val.d.title)),
          calls |-> <<"validate_flow", "flow_to_mermaid">>]

build_task_flow(flow) ==
    LET validation == validate_flow(flow) IN
    IF ~validation.ok
    THEN [out |-> validation, calls |-> <<"validate_flow">>]
    ELSE IF ~validation.val.d.valid
    THEN [out   |-> Ret(Bundle(validation.val, ErrorDiagram,
                               IF IsDict(flow)
                               THEN GetOr(flow, "title", InvalidFlowTitle)
                               ELSE InvalidFlowTitle)),
          calls |-> <<"validate_flow">>]
    ELSE LET mermaid_results == flow_to_mermaid(flow) IN
         [out   |-> IF ~mermaid_results.ok THEN mermaid_results
                    ELSE Ret(Bundle(validation.val,
                                    mermaid_results.val.d.mermaid,
                                    mermaid_results.val.d.title)),
          calls |-> <<"validate_flow", "flow_to_mermaid">>]

(***************************************************************************)
(* schema.py: NodeType, Node, Edge, TaskFlow                               *)
(***************************************************************************)
NodeTypeNames == {"START", "PROCESS", "DECISION", "END"}

\* The enum member called name
Member(name) == [k |-> "NodeType", name |-> name]

\* member.value
NodeTypeValue(member) ==
    CASE member.name = "START"    -> S("start")
      [] member.name = "PROCESS"  -> S("process")
      [] member.name = "DECISION" -> S("decision")
      [] member.name = "END"      -> S("end")

\* NodeType(value): the member with that value, or ValueError
NodeType(value) ==
    IF \E name \in NodeTypeNames : NodeTypeValue(Member(name)) = value
    THEN Ret(Member(CHOOSE name \in NodeTypeNames :
                        NodeTypeValue(Member(name)) = value))
    ELSE Raise("ValueError")

Node(id, label, actor, type) ==
    [k |-> "Node", id |-> id, label |-> label, actor |-> actor, type |-> type]

Edge(source, target, condition) ==
    [k |-> "Edge", source |-> source, target |-> target, condition |-> condition]

TaskFlow(title, actors, nodes, edges) ==
    [k |-> "TaskFlow", title |-> title, actors |-> actors,
     nodes |-> nodes, edges |-> edges]

Node_to_dict(self) ==
    PyDict([id |-> self.id, label |-> self.label, actor |-> self.actor,
            type |-> NodeTypeValue(self.type)])

\* Edge.to_dict with the two ends exchanged
Edge_to_dict_Swapped(self) ==
    PyDict([from |-> self.target, to |-> self.source,
            condition |-> self.condition])

Edge_to_dict(self) ==
    PyDict([from |-> self.source, to |-> self.target,
            condition |-> self.condition])

TaskFlow_to_dict(self) ==
    PyDict([title  |-> self.title,
            actors |-> self.actors,
            nodes  |-> PyList([i \in DOMAIN self.nodes |->
                                  Node_to_dict(self.nodes[i])]),
            edges  |-> PyList([i \in DOMAIN self.edges |->
                                  Edge_to_dict(self.edges[i])])])

\* Node(id=n["id"], label=n["label"], actor=n["actor"], type=NodeType(n["type"]))
\* subscripting an entry that is not a dict with a str raises TypeError
NodeFromDict(n) ==
    IF ~IsDict(n) THEN Raise("TypeError")
    ELSE IF ~(HasKey(n, "id") /\ HasKey(n, "label") /\ HasKey(n, "actor")
         /\ HasKey(n, "type"))
    THEN Raise("KeyError")
    ELSE LET type == NodeType(n.d["type"]) IN
         IF ~type.ok THEN type
         ELSE Ret(Node(n.d["id"], n.d["label"], n.d["actor"], type.val))

\* Edge(source=e["from"], target=e["to"], condition=e.get("condition"))
EdgeFromDict(e) ==
    IF ~IsDict(e) THEN Raise("TypeError")
    ELSE IF ~(HasKey(e, "from") /\ HasKey(e, "to")) THEN Raise("KeyError")
    ELSE Ret(Edge(e.d["from"], e.d["to"], Get(e, "condition")))

\* [Item(x) for x in items], items already converted: the first exception, if any
Collect(outcomes) ==
    IF \E i \in DOMAIN outcomes : ~outcomes[i].ok
    THEN outcomes[CHOOSE i \in DOMAIN outcomes :
                      /\ ~outcomes[i].ok
                      /\ \A j \in 1..(i - 1) : outcomes[j].ok]
    ELSE Ret([i \in DOMAIN outcomes |-> outcomes[i].val])

DefaultActors == PyList(<<S("user"), S("system")>>)

TaskFlow_from_dict(data) ==
    LET nraw  == GetOr(data, "nodes", PyList(<<>>)).items
        eraw  == GetOr(data, "edges", PyList(<<>>)).items
        nodes == Collect([i \in DOMAIN nraw |-> NodeFromDict(nraw[i])])
        edges == Collect([i \in DOMAIN eraw |-> EdgeFromDict(eraw[i])])
    IN  IF ~nodes.ok THEN nodes
        ELSE IF ~edges.ok THEN edges
        ELSE Ret(TaskFlow(GetOr(data, "title", UntitledFlowTitle),
                          GetOr(data, "actors", DefaultActors),
                          nodes.val, edges.val))

(***************************************************************************)
(* The flow descriptions the caller passes in                              *)
(***************************************************************************)
MaxNodes == 2

MaxEdges == 2

MaxBranchEdges == 3

\* A key left out of a dict
Absent == [k |-> "absent"]

\* The dict holding the keys of rec whose value is not Absent
MkDict(rec) ==
    PyDict([key \in {x \in DOMAIN rec : rec[x] # Absent} |-> rec[key]])

SeqsUpTo(set, n) == UNION {[1..m -> set] : m \in 0..n}

TypeNames == {"start", "process", "decision", "end"}

QuotedLabel == PyStr(<<"say", " ", "\"", "hi", "\"">>)

UnhashableId == PyList(<<S("a")>>)

\* Node entries with a str id and a type of the vocabulary
WellFormedNodes ==
    {MkDict([id |-> S(i), label |-> S("L"), actor |-> S("user"),
             type |-> S(ty)]) :
        i \in {"a", "b"}, ty \in TypeNames}

\* Node entries an untrusted producer may also send
OddNodes ==
    { S("junk"),
      MkDict([type |-> S("start"), label |-> S("L")]),
      MkDict([id |-> UnhashableId, type |-> S("start")]),
      MkDict([id |-> S("a")]),
      MkDict([id |-> S("a"), type |-> S("start"), label |-> PyInt(5)]),
      MkDict([id |-> S("b"), type |-> S("end"), label |-> QuotedLabel]) }

NodeEntries == WellFormedNodes \cup OddNodes

Blank == PyStr(<<" ", " ">>)

\* Edge entries from a str id to a str id or to nothing, with or
\* without a condition
WellFormedEdges ==
    {MkDict([from |-> f, to |-> g, condition |-> c]) :
        f \in {S("a"), S("b")}, g \in {S("a"), S("b"), Absent},
        c \in {Absent, S("yes")}}

\* Edge entries an untrusted producer may also send
OddEdges ==
    { S("junk"),
      MkDict([to |-> S("a")]),
      MkDict([from |-> UnhashableId, to |-> S("a")]),
      MkDict([from |-> S("a"), to |-> S("b"), condition |-> Blank]),
      MkDict([from |-> S("a"), to |-> S("b"), condition |-> PyInt(5)]),
      MkDict([from |-> S("a"), to |-> S("b"), condition |-> QuotedLabel]) }

EdgeEntries == WellFormedEdges \cup OddEdges

\* The title and actors of a description: both left out, or both given
Headers ==
    { [title |-> Absent, actors |-> Absent],
      [title |-> S("T"), actors |-> PyList(<<S("user")>>)] }

NodeLists == SeqsUpTo(NodeEntries, MaxNodes)

EdgeLists == SeqsUpTo(EdgeEntries, MaxEdges)

\* A flow of at most MaxNodes node entries and MaxEdges edge entries
SmallFlow(h, ns, es) ==
    MkDict([title |-> h.title, actors |-> h.actors,
            nodes |-> PyList(ns), edges |-> PyList(es)])

\* Values that fail the type gate or the shape gate
ShapeFlows ==
    {PyNone, S("flow"), PyInt(0), PyList(<<S("a")>>)}
    \cup
    {MkDict([title |-> h.title, nodes |-> ns, edges |-> es]) :
        h \in Headers,
        ns \in {Absent, PyNone, PyList(<<>>), S("a")},
        es \in {Absent, PyList(<<>>), EmptyDict}}

\* A start, a decision and an end node, with a list of MaxBranchEdges
\* edges among them
BranchNodes ==
    << MkDict([id |-> S("a"), label |-> S("L"), actor |-> S("user"),
               type |-> S("start")]),
       MkDict([id |-> S("b"), label |-> S("L"), actor |-> S("system"),
               type |-> S("decision")]),
       MkDict([id |-> S("c"), label |-> S("L"), actor |-> S("user"),
               type |-> S("end")]) >>

BranchEdges ==
    {MkDict([from |-> S(f), to |-> S(g), condition |-> c]) :
        f \in {"a", "b", "c"}, g \in {"a", "b", "c"},
        c \in {Absent, S("yes"), Blank}}

BranchEdgeLists == [1..MaxBranchEdges -> BranchEdges]

BranchFlow(es) ==
    MkDict([title |-> S("T"), nodes |-> PyList(BranchNodes),
            edges |-> PyList(es)])

\* Typed TaskFlow objects of at most MaxNodes nodes and MaxEdges edges
TypedNodes ==
    {Node(S(i), S("L"), S("user"), Member(name)) :
        i \in {"a", "b"}, name \in NodeTypeNames}

TypedEdges ==
    {Edge(S(f), S(g), c) :
        f \in {"a", "b"}, g \in {"a", "b"}, c \in {PyNone, S("yes")}}

TypedNodeLists == SeqsUpTo(TypedNodes, MaxNodes)

TypedEdgeLists == SeqsUpTo(TypedEdges, MaxEdges)

(***************************************************************************)
(* The caller                                                              *)
(***************************************************************************)
NoValue == [k |-> "none"]

IsTaskFlow(v) == v.k = "TaskFlow"

Init ==
    /\ op = "idle"
    /\ result = NoValue
    /\ calls = <<>>
    /\ \/ \E h \in Headers, ns \in NodeLists, es \in EdgeLists :
             held = SmallFlow(h, ns, es)
       \/ held \in ShapeFlows
       \/ \E es \in BranchEdgeLists : held = BranchFlow(es)
       \/ \E ns \in TypedNodeLists, es \in TypedEdgeLists :
             held = TaskFlow(S("T"), DefaultActors, ns, es)

Validate ==
    /\ op = "idle"
    /\ ~IsTaskFlow(held)
    /\ op' = "validate_flow"
    /\ result' = validate_flow(held)
    /\ calls' = <<"validate_flow">>
    /\ UNCHANGED held

ToDiagram ==
    /\ op = "idle"
    /\ ~IsTaskFlow(held)
    /\ op' = "flow_to_mermaid"
    /\ result' = flow_to_mermaid(held)
    /\ calls' = <<"flow_to_mermaid">>
    /\ UNCHANGED held

Build ==
    /\ op = "idle"
    /\ ~IsTaskFlow(held)
    /\ op' = "build_task_flow"
    /\ result' = build_task_flow(held).out
    /\ calls' = build_task_flow(held).calls
    /\ UNCHANGED held

\* A description whose nodes and edges, when given, are lists
Listed(v) ==
    /\ IsDict(v)
    /\ HasKey(v, "nodes") => IsList(v.d.nodes)
    /\ HasKey(v, "edges") => IsList(v.d.edges)

\* TaskFlow.from_dict(held).to_dict()
DescriptionRoundTrip ==
    /\ op = "idle"
    /\ Listed(held)
    /\ op' = "to_dict(from_dict)"
    /\ result' = LET t == TaskFlow_from_dict(held) IN
                 IF t.ok THEN Ret(TaskFlow_to_dict(t.val)) ELSE t
    /\ calls' = <<"TaskFlow.from_dict", "TaskFlow.to_dict">>
    /\ UNCHANGED held

\* TaskFlow.from_dict(held.to_dict())
ObjectRoundTrip ==
    /\ op = "idle"
    /\ IsTaskFlow(held)
    /\ op' = "from_dict(to_dict)"
    /\ result' = TaskFlow_from_dict(TaskFlow_to_dict(held))
    /\ calls' = <<"TaskFlow.to_dict", "TaskFlow.from_dict">>
    /\ UNCHANGED held

Return ==
    /\ op # "idle"
    /\ op' = "idle"
    /\ result' = NoValue
    /\ calls' = <<>>
    /\ UNCHANGED held

Next ==
    \/ Validate \/ ToDiagram \/ Build
    \/ DescriptionRoundTrip \/ ObjectRoundTrip
    \/ Return

Spec == Init /\ [][Next]_vars

(***************************************************************************)
(* Several call sites working on one description.  Every site calls        *)
(* validate_flow, flow_to_mermaid or build_task_flow on the description    *)
(* held, and the sites take turns between the steps of their calls: the    *)
(* gates and STEP 1, STEP 2, and STEPs 3-4 of validate_flow; the gates     *)
(* and the node loop, and the edge loop and the return, of                 *)
(* flow_to_mermaid; build_task_flow runs the first, then the second. Here  *)
(* op, result and calls are kept for each site: op[p] is the function      *)
(* site p is in and the step it is at, result[p] its locals and, once it   *)
(* has returned, its outcome, and calls[p] the description it was given    *)
(* and the functions its call has entered.                                 *)
(***************************************************************************)
NumSites == 2

Sites == 1..NumSites

Functions == {"validate_flow", "flow_to_mermaid", "build_task_flow"}

\* A node entry of the data model
NodeEntry(id, type) ==
    MkDict([id |-> S(id), label |-> S("L"), actor |-> S("user"),
            type |-> S(type)])

\* The node lists and edge lists of the shared descriptions: every list of
\* at most one entry, and a few of two
SharedNodeLists ==
    SeqsUpTo(NodeEntries, 1)
    \cup
    { <<NodeEntry("a", "start"), NodeEntry("b", "end")>>,
      <<NodeEntry("a", "start"), NodeEntry("b", "decision")>>,
      <<MkDict([id |-> S("a"), type |-> S("start"), label |-> PyInt(5)]),
        MkDict([id |-> S("b"), type |-> S("end"), label |-> QuotedLabel])>> }

SharedEdgeLists ==
    SeqsUpTo(EdgeEntries, 1)
    \cup
    { <<MkDict([from |-> S("a"), to |-> S("b"), condition |-> S("yes")]),
        MkDict([from |-> S("b")])>>,
      <<MkDict([from |-> S("a"), to |-> S("b")]),
        MkDict([from |-> S("b"), to |-> S("a"), condition |-> Blank])>> }

SharedFlows ==
    ShapeFlows
    \cup
    {SmallFlow(h, ns, es) :
        h \in Headers, ns \in SharedNodeLists, es \in SharedEdgeLists}

SharedInit ==
    /\ held \in SharedFlows
    /\ op = [p \in Sites |-> [fn |-> "none", pc |-> "idle"]]
    /\ result = [p \in Sites |-> NoValue]
    /\ calls = [p \in Sites |-> NoValue]

\* Site p goes on to step pc with the locals local, having entered made
Becomes(p, pc, local, made) ==
    /\ op' = [op EXCEPT ![p].pc = pc]
    /\ result' = [result EXCEPT ![p] = local]
    /\ calls' = [calls EXCEPT ![p].made = made]

\* validate_flow ends with outcome v: it returns to the site, or to
\* build_task_flow, which returns the placeholder or goes on to compile
AfterValidation(p, v) ==
    IF op[p].fn = "validate_flow" \/ ~v.ok
    THEN Becomes(p, "returned", v, calls[p].made)
    ELSE IF ~v.val.d.valid
    THEN Becomes(p, "returned",
                 Ret(Bundle(v.val, ErrorDiagram,
                            IF IsDict(held)
                            THEN GetOr(held, "title", InvalidFlowTitle)
                            ELSE InvalidFlowTitle)),
                 calls[p].made)
    ELSE Becomes(p, "nodes", [validation |-> v.val],
                 Append(calls[p].made, "flow_to_mermaid"))

\* flow_to_mermaid ends with outcome m: it returns to the site, or to
\* build_task_flow, which returns the bundle
AfterCompile(p, m) ==
    IF op[p].fn = "flow_to_mermaid" \/ ~m.ok
    THEN Becomes(p, "returned", m, calls[p].made)
    ELSE Becomes(p, "returned",
                 Ret(Bundle(result[p].validation, m.val.d.mermaid,
                            m.val.d.title)),
                 calls[p].made)

\* Site p calls fn on the description
SiteCall(p) ==
    /\ op[p].pc = "idle"
    /\ \E fn \in Functions :
          /\ op' = [op EXCEPT ![p] =
                       [fn |-> fn,
                        pc |-> IF fn = "flow_to_mermaid" THEN "nodes" ELSE "table"]]
          /\ calls' = [calls EXCEPT ![p] =
                          [given |-> held,
                           made  |-> <<IF fn = "build_task_flow"
                                       THEN "validate_flow" ELSE fn>>]]
    /\ result' = [result EXCEPT ![p] = NoValue]
    /\ UNCHANGED held

\* validate_flow: the type and structure gates, the node table and STEP 1
SiteTable(p) ==
    /\ op[p].pc = "table"
    /\ IF ~IsDict(held)
       THEN AfterValidation(p,
                Ret(Report(<<Issue("invalid_type",
                                   "Flow must be a dict with 'nodes' and 'edges', but got "
                                   \o TypeName(held) \o ": " \o Repr(held))>>)))
       ELSE LET nodes_raw == Get(held, "nodes")
                edges_raw == Get(held, "edges")
            IN  IF ~IsList(nodes_raw) \/ ~IsList(edges_raw)
                THEN AfterValidation(p,
                         Ret(Report(<<Issue("invalid_structure",
                                            "Flow must have 'nodes' and 'edges' as lists. ")>>)))
                ELSE LET nodes == NodeTable(nodes_raw.items) IN
                     IF ~nodes.ok THEN AfterValidation(p, nodes)
                     ELSE Becomes(p, "adjacency",
                                  [tbl    |-> nodes.val,
                                   edges  |-> DictEntries(edges_raw.items),
                                   issues |-> CardinalityIssues(nodes.val)],
                                  calls[p].made)
    /\ UNCHANGED held

\* validate_flow: STEP 2
SiteAdjacency(p) ==
    /\ op[p].pc = "adjacency"
    /\ LET l     == result[p]
           empty == [i \in DOMAIN l.tbl |-> <<>>]
           adj   == AdjacencyLoop(l.edges, l.tbl,
                                  [issues   |-> l.issues,
                                   incoming |-> empty,
                                   outgoing |-> empty])
       IN  IF ~adj.ok THEN AfterValidation(p, adj)
           ELSE Becomes(p, "checks", [tbl |-> l.tbl, adj |-> adj.val],
                        calls[p].made)
    /\ UNCHANGED held

\* validate_flow: STEP 3, STEP 4 and the return
SiteChecks(p) ==
    /\ op[p].pc = "checks"
    /\ LET l     == result[p]
           step3 == l.adj.issues \o CheckEdges(l.tbl, l.adj, 1)
           step4 == CheckDecisions(l.tbl, l.adj, NodesOfType(l.tbl, "decision"))
       IN  AfterValidation(p, IF ~step4.ok THEN step4
                              ELSE Ret(Report(step3 \o step4.val)))
    /\ UNCHANGED held

\* flow_to_mermaid: the gates, the node lookup and the node loop
SiteNodes(p) ==
    /\ op[p].pc = "nodes"
    /\ IF ~IsDict(held)
       THEN AfterCompile(p,
                Ret(Diagram(InvalidFlowTitle,
                            "flowchart TD\n ERR[Invalid flow: not a dict]\n")))
       ELSE LET nodes == GetOr(held, "nodes", PyList(<<>>))
                edges == GetOr(held, "edges", PyList(<<>>))
            IN  IF ~IsList(nodes) \/ ~IsList(edges)
                THEN AfterCompile(p,
                         Ret(Diagram(GetOr(held, "title", InvalidFlowTitle),
                                     "flowchart TD\n ERR[Invalid flow: nodes/edges not lists]\n")))
                ELSE LET node_lookup == NodeTable(nodes.items) IN
                     IF ~node_lookup.ok THEN AfterCompile(p, node_lookup)
                     ELSE LET nlines == NodeLines(node_lookup.val, 1) IN
                          IF ~nlines.ok THEN AfterCompile(p, nlines)
                          ELSE Becomes(p, "edges",
                                       [validation |->
                                            IF op[p].fn = "build_task_flow"
                                            THEN result[p].validation
                                            ELSE NoValue,
                                        edges |-> edges.items,
                                        lines |-> <<"flowchart TD">> \o nlines.val],
                                       calls[p].made)
    /\ UNCHANGED held

\* SiteEdges with the title read by flow.setdefault("title", "Untitled Flow")
SiteEdges_SetsDefaultTitle(p) ==
    /\ op[p].pc = "edges"
    /\ LET l      == result[p]
           elines == EdgeLines(l.edges)
       IN  IF ~elines.ok THEN AfterCompile(p, elines)
           ELSE AfterCompile(p,
                    Ret(Diagram(GetOr(held, "title", UntitledFlowTitle),
                                JoinLines(l.lines \o elines.val))))
    /\ held' = PyDict([key \in DOMAIN held.d \cup {"title"} |->
                          IF key \in DOMAIN held.d THEN held.d[key]
                          ELSE UntitledFlowTitle])

\* flow_to_mermaid: the edge loop, the join and the return
SiteEdges(p) ==
    /\ op[p].pc = "edges"
    /\ LET l      == result[p]
           elines == EdgeLines(l.edges)
       IN  IF ~elines.ok THEN AfterCompile(p, elines)
           ELSE AfterCompile(p,
                    Ret(Diagram(GetOr(held, "title", UntitledFlowTitle),
                                JoinLines(l.lines \o elines.val))))
    /\ UNCHANGED held

\* The site takes the outcome of its call
SiteReturn(p) ==
    /\ op[p].pc = "returned"
    /\ op' = [op EXCEPT ![p] = [fn |-> "none", pc |-> "idle"]]
    /\ result' = [result EXCEPT ![p] = NoValue]
    /\ calls' = [calls EXCEPT ![p] = NoValue]
    /\ UNCHANGED held

SharedNext ==
    \E p \in Sites :
        \/ SiteCall(p)
        \/ SiteTable(p) \/ SiteAdjacency(p) \/ SiteChecks(p)
        \/ SiteNodes(p) \/ SiteEdges(p)
        \/ SiteReturn(p)

SharedSpec == SharedInit /\ [][SharedNext]_vars

(***************************************************************************)
(* The held flow read as a graph, stated directly on the input: the node   *)
(* table is the node entries that are maps with an id, a later entry       *)
(* replacing an earlier one of the same id.                                *)
(***************************************************************************)
IsGraph ==
    /\ IsDict(held)
    /\ HasKey(held, "nodes") /\ IsList(held.d.nodes)
    /\ HasKey(held, "edges") /\ IsList(held.d.edges)

RawNodes == held.d.nodes.items

RawEdges == held.d.edges.items

TableRows == {i \in DOMAIN RawNodes : IsDict(RawNodes[i]) /\ HasKey(RawNodes[i], "id")}

TableIds == {RawNodes[i].d.id : i \in TableRows}

RowOf(id) ==
    CHOOSE i \in TableRows :
        /\ RawNodes[i].d.id = id
        /\ \A j \in TableRows : j > i => RawNodes[j].d.id # id

KindOf(id) == Get(RawNodes[RowOf(id)], "type")

IdsOfKind(kind) == {id \in TableIds : KindOf(id) = S(kind)}

MapEdges == {j \in DOMAIN RawEdges : IsDict(RawEdges[j])}

Src(j) == Get(RawEdges[j], "from")

Tgt(j) == Get(RawEdges[j], "to")

OutEdges(id) == {j \in MapEdges : Src(j) = id}

InEdges(id) == {j \in MapEdges : Tgt(j) = id}

\* The edge's condition is a str with a character that is not whitespace
Conditioned(j) ==
    LET c == Get(RawEdges[j], "condition") IN
    IsStr(c) /\ \E n \in DOMAIN c.s : ~IsSpace(c.s[n])

\* Node ids and edge ends are None, str or int; conditions are None or str
InputsTyped ==
    /\ \A i \in TableRows : Hashable(RawNodes[i].d.id)
    /\ \A j \in MapEdges :
          /\ Hashable(Src(j)) /\ Hashable(Tgt(j))
          /\ Get(RawEdges[j], "condition").k \in {"NoneType", "str"}

OneStartSomeEnd ==
    /\ Cardinality(IdsOfKind("start")) = 1
    /\ IdsOfKind("end") # {}

EdgesResolve == \A j \in MapEdges : Src(j) \in TableIds /\ Tgt(j) \in TableIds

NodesConnected ==
    \A id \in TableIds :
        /\ KindOf(id) # S("start") => InEdges(id) # {}
        /\ KindOf(id) # S("end") => OutEdges(id) # {}

DecisionsBranch ==
    \A id \in IdsOfKind("decision") :
        /\ Cardinality(OutEdges(id)) >= 2
        /\ \A j \in OutEdges(id) : Conditioned(j)

Validated == op = "validate_flow"

Reported == Validated /\ result.ok

ReportedValid == Reported /\ result.val.d.valid

Issues == result.val.d.issues

CleanReport == Ret(PyDict([valid |-> TRUE, issues |-> <<>>]))

(***************************************************************************)
(* C1  validate_flow never raises: on every input it returns a report.     *)
(* Refuted by the code: an unhashable node id or edge end raises           *)
(* TypeError, a non-str condition on a decision edge AttributeError.       *)
(***************************************************************************)
C1_ValidateNeverRaises ==
    Validated =>
        /\ result.ok
        /\ IsDict(result.val)
        /\ result.val.d.valid = (Len(result.val.d.issues) = 0)

StartCountMessage(n) ==
    "Flow should have exactly 1 start node, found " \o ToString(n) \o "."

HasStartCountIssue(n) ==
    \E i \in DOMAIN Issues :
        Issues[i] = [type |-> "start_node_count", message |-> StartCountMessage(n)]

RawStartCount ==
    Cardinality({i \in DOMAIN RawNodes :
                    IsDict(RawNodes[i]) /\ Get(RawNodes[i], "type") = S("start")})

TableStartCount == Cardinality(IdsOfKind("start"))

C4_ValidImpliesSound ==
    ReportedValid =>
        /\ IsGraph
        /\ OneStartSomeEnd
        /\ EdgesResolve
        /\ NodesConnected
        /\ DecisionsBranch

C4_Witness ==
    /\ ReportedValid
    /\ IdsOfKind("decision") # {}
    /\ \E id \in IdsOfKind("decision") : Cardinality(OutEdges(id)) = 2

(***************************************************************************)
(* C5  build_task_flow on an input that validate_flow reports invalid      *)
(* never calls flow_to_mermaid and returns the fixed placeholder diagram   *)
(* with the full validation report; the title is the input's title when    *)
(* the input is a map with a title key, otherwise "Invalid Flow".          *)
(***************************************************************************)
Built == op = "build_task_flow"

ReportsInvalid(v) == validate_flow(v).ok /\ ~validate_flow(v).val.d.valid

ReportsValid(v) == validate_flow(v).ok /\ validate_flow(v).val.d.valid

PlaceholderBody == "flowchart TD\n ERR[Invalid flow input. See issues list.]\n"

C5_InvalidBuildsPlaceholder ==
    (Built /\ ReportsInvalid(held)) =>
        /\ calls = <<"validate_flow">>
        /\ result.ok
        /\ DOMAIN result.val.d = {"validation", "mermaid", "title"}
        /\ result.val.d.validation = validate_flow(held).val
        /\ result.val.d.mermaid = PlaceholderBody
        /\ result.val.d.title =
              IF IsDict(held) /\ HasKey(held, "title")
              THEN held.d.title
              ELSE PyStr(<<"Invalid", " ", "Flow">>)

C5_Witness ==
    /\ Built /\ ReportsInvalid(held)
    /\ Len(validate_flow(held).val.d.issues) >= 3
    /\ IsDict(held) /\ HasKey(held, "title")
    /\ result.ok /\ result.val.d.mermaid = PlaceholderBody
    /\ result.val.d.title = S("T")

(***************************************************************************)
(* C6  build_task_flow runs the validator first and, on every input that   *)
(* validate_flow reports valid, calls flow_to_mermaid on the same input    *)
(* and returns a bundle holding the compiler's title and diagram and the   *)
(* report {valid: true, issues: []}; it returns and does not raise.        *)
(* Refuted by the code: flow_to_mermaid raises on a valid flow whose       *)
(* label or condition is not a str, and build_task_flow with it.           *)
(***************************************************************************)
C6_ValidBuildsDiagram ==
    /\ Built => (calls # <<>> /\ calls[1] = "validate_flow")
    /\ (Built /\ ReportsValid(held)) =>
          /\ calls = <<"validate_flow", "flow_to_mermaid">>
          /\ result.ok
          /\ flow_to_mermaid(held).ok
          /\ result.val.d.validation = CleanReport.val
          /\ result.val.d.mermaid = flow_to_mermaid(held).val.d.mermaid
          /\ result.val.d.title = flow_to_mermaid(held).val.d.title

(***************************************************************************)
(* C7  For every flow that validate_flow reports valid, the diagram text   *)
(* is the keyword line, the node lines, and then one connector line per    *)
(* edge in input order: "src --> tgt", or "src -->|condition| tgt" when    *)
(* the trimmed condition is not empty.  Stated where flow_to_mermaid       *)
(* returns.  Refuted by the code: an edge with a target is skipped.        *)
(***************************************************************************)
ConnectorLine(e) ==
    LET c == Get(e, "condition")
        cond == IF IsStr(c) THEN Strip(c.s) ELSE <<>>
    IN  "     " \o Format(Get(e, "from"))
        \o (IF cond # <<>>
            THEN " -->|" \o Render(EscapeQuotes(cond)) \o "| "
            ELSE " --> ")
        \o Format(Get(e, "to"))

ConnectorLines ==
    LET es == SelectSeq(RawEdges, IsDict) IN
    [j \in DOMAIN es |-> ConnectorLine(es[j])]

DiagramWithEveryEdge ==
    JoinLines(<<"flowchart TD">>
              \o NodeLines(NodeTable(RawNodes).val, 1).val
              \o ConnectorLines)

C7_EveryEdgeRendered ==
    (op \in {"flow_to_mermaid", "build_task_flow"}
     /\ ReportsValid(held) /\ result.ok)
        => result.val.d.mermaid = DiagramWithEveryEdge

(***************************************************************************)
(* C8  flow_to_mermaid never raises: on every input it returns a title     *)
(* and a diagram, the one-line error diagram when the input is not a map   *)
(* or its nodes or edges are not lists.  Refuted by the code: a label or   *)
(* condition that is not a str raises AttributeError, an unhashable node   *)
(* id TypeError.                                                           *)
(***************************************************************************)
ErrorBodies ==
    { "flowchart TD\n ERR[Invalid flow: not a dict]\n",
      "flowchart TD\n ERR[Invalid flow: nodes/edges not lists]\n" }

BadShape ==
    \/ ~IsDict(held)
    \/ HasKey(held, "nodes") /\ ~IsList(held.d.nodes)
    \/ HasKey(held, "edges") /\ ~IsList(held.d.edges)

C8_CompilerNeverRaises ==
    op = "flow_to_mermaid" =>
        /\ result.ok
        /\ DOMAIN result.val.d = {"title", "mermaid"}
        /\ BadShape => result.val.d.mermaid \in ErrorBodies

(***************************************************************************)
(* C9  Serialization round trip.  For every TaskFlow t,                    *)
(* from_dict(to_dict(t)) equals t; and for every description d with the    *)
(* fields title, actors, nodes (id, label, actor, type of the              *)
(* vocabulary) and edges (from, to, optional condition),                   *)
(* to_dict(from_dict(d)) holds every field of d with the value d gives it. *)
(***************************************************************************)
Vocabulary == {S("start"), S("process"), S("decision"), S("end")}

IsDescription ==
    /\ Listed(held)
    /\ DOMAIN held.d \subseteq {"title", "actors", "nodes", "edges"}
    /\ HasKey(held, "nodes") =>
          \A i \in DOMAIN RawNodes :
              /\ IsDict(RawNodes[i])
              /\ DOMAIN RawNodes[i].d = {"id", "label", "actor", "type"}
              /\ RawNodes[i].d.type \in Vocabulary
    /\ HasKey(held, "edges") =>
          \A j \in DOMAIN RawEdges :
              /\ IsDict(RawEdges[j])
              /\ {"from", "to"} \subseteq DOMAIN RawEdges[j].d
              /\ DOMAIN RawEdges[j].d \subseteq {"from", "to", "condition"}

\* Every key of dict a is a key of dict b with the same value
FieldsKept(a, b) ==
    /\ IsDict(b)
    /\ \A key \in DOMAIN a.d : key \in DOMAIN b.d /\ b.d[key] = a.d[key]

\* Every entry of list a is reproduced, field by field, at its place in list b
EntriesKept(a, b) ==
    /\ IsList(b)
    /\ Len(b.items) = Len(a.items)
    /\ \A i \in DOMAIN a.items : FieldsKept(a.items[i], b.items[i])

Reproduces(d, r) ==
    /\ IsDict(r)
    /\ \A key \in DOMAIN d.d \cap {"title", "actors"} :
          key \in DOMAIN r.d /\ r.d[key] = d.d[key]
    /\ \A key \in DOMAIN d.d \cap {"nodes", "edges"} :
          key \in DOMAIN r.d /\ EntriesKept(d.d[key], r.d[key])

C9_RoundTrip ==
    /\ op = "from_dict(to_dict)" => result = Ret(held)
    /\ (op = "to_dict(from_dict)" /\ IsDescription) =>
          (result.ok /\ Reproduces(held, result.val))

C9_Witness ==
    /\ op = "from_dict(to_dict)"
    /\ Len(held.nodes) = 2 /\ Len(held.edges) = 2
    /\ held.edges[1].source # held.edges[1].target
    /\ held.edges[1].condition # PyNone
    /\ held.edges[2].condition = PyNone
    /\ result = Ret(held)

C9_WitnessDescription ==
    /\ op = "to_dict(from_dict)" /\ IsDescription
    /\ HasKey(held, "nodes") /\ HasKey(held, "edges")
    /\ HasKey(held, "title") /\ Len(RawNodes) = 3 /\ Len(RawEdges) = 3
    /\ \E j \in DOMAIN RawEdges : ~HasKey(RawEdges[j], "condition")
    /\ \E j \in DOMAIN RawEdges : HasKey(RawEdges[j], "condition")
    /\ result.ok /\ Reproduces(held, result.val)

(***************************************************************************)
(* C10  The issue list of every report is ordered by check and then by     *)
(* input order: no_nodes, start_node_count, end_node_count; then, edge     *)
(* by edge in input order, edge_source_missing before                      *)
(* edge_target_missing; then, node by node in declaration order,           *)
(* no_incoming_edge before no_outgoing_edge; then, decision node by        *)
(* decision node in declaration order, decision_branch_count followed by   *)
(* the node's missing_condition issues in edge input order.  Stated as:    *)
(* the issue list is exactly the list these rules lay out.                 *)
(***************************************************************************)
RECURSIVE Cat(_)
Cat(seqs) == IF seqs = <<>> THEN <<>> ELSE Head(seqs) \o Cat(Tail(seqs))

If(cond, type, message) ==
    IF cond THEN <<[type |-> type, message |-> message]>> ELSE <<>>

\* The members of a set of numbers, ascending
Ascending(set) ==
    [n \in 1..Cardinality(set) |->
        CHOOSE x \in set : Cardinality({y \in set : y < x}) = n - 1]

\* The ids of the node table, in the order they were first declared
DeclaredIds ==
    LET firsts == {i \in TableRows :
                      \A j \in TableRows : j < i => RawNodes[j].d.id # RawNodes[i].d.id}
        rows == Ascending(firsts)
    IN  [n \in DOMAIN rows |-> RawNodes[rows[n]].d.id]

CardinalitySection ==
    If(TableIds = {}, "no_nodes", "Flow has no valid node definitions.")
    \o If(TableStartCount # 1, "start_node_count", StartCountMessage(TableStartCount))
    \o If(IdsOfKind("end") = {}, "end_node_count",
          "Flow should have at least 1 end node, found 0.")

ReferentialSection ==
    LET js == Ascending(MapEdges) IN
    Cat([n \in DOMAIN js |->
            If(Src(js[n]) \notin TableIds, "edge_source_missing",
               "Edge has source '" \o Format(Src(js[n])) \o "' which is not a node id.")
            \o
            If(Tgt(js[n]) \notin TableIds, "edge_target_missing",
               "Edge has target '" \o Format(Tgt(js[n])) \o "' which is not a node id.")])

TopologySection ==
    Cat([n \in DOMAIN DeclaredIds |->
            LET id == DeclaredIds[n] IN
            If(KindOf(id) # S("start") /\ InEdges(id) = {}, "no_incoming_edge",
               "Node '" \o Format(id)
               \o "' has no incoming edges and is not the start node.")
            \o
            If(KindOf(id) # S("end") /\ OutEdges(id) = {}, "no_outgoing_edge",
               "Node '" \o Format(id)
               \o "' has no outgoing edges and is not an end node.")])

DecisionSection ==
    Cat([n \in DOMAIN DeclaredIds |->
            LET id == DeclaredIds[n]
                outs == Ascending(OutEdges(id))
            IN  IF KindOf(id) # S("decision") THEN <<>>
                ELSE If(Len(outs) < 2, "decision_branch_count",
                        "Decision node '" \o Format(id)
                        \o "' should have at least 2 outgoing edges.")
                     \o
                     Cat([m \in DOMAIN outs |->
                             If(~Conditioned(outs[m]), "missing_condition",
                                "Decision edge from '" \o Format(id) \o "' to '"
                                \o Format(Tgt(outs[m]))
                                \o "' should have a non-empty condition.")])])

OrderedIssues ==
    CardinalitySection \o ReferentialSection \o TopologySection \o DecisionSection

C10_IssuesOrdered ==
    Reported =>
        IF IsGraph THEN Issues = OrderedIssues ELSE Len(Issues) = 1

IssueTypes == {Issues[i].type : i \in DOMAIN Issues}

C10_Witness ==
    /\ Reported /\ IsGraph
    /\ {"start_node_count", "edge_source_missing", "edge_target_missing",
        "no_incoming_edge", "no_outgoing_edge", "decision_branch_count",
        "missing_condition"} \subseteq IssueTypes
    /\ Issues = OrderedIssues

(***************************************************************************)
(* C11  The shape gates short-circuit.  When the input is not a map the    *)
(* report is valid=false with exactly one issue, of type invalid_type;     *)
(* when it is a map whose nodes or edges is absent or not a list, the      *)
(* report is valid=false with exactly one issue, of type                   *)
(* invalid_structure; and no report for an input that passes both gates    *)
(* holds an issue of either type.                                          *)
(***************************************************************************)
OnlyIssue(type) ==
    /\ result.ok
    /\ result.val.d.valid = FALSE
    /\ Len(Issues) = 1
    /\ Issues[1].type = type

C11_ShapeGatesShortCircuit ==
    Validated =>
        /\ ~IsDict(held) => OnlyIssue("invalid_type")
        /\ (IsDict(held) /\ ~IsGraph) => OnlyIssue("invalid_structure")
        /\ (IsGraph /\ result.ok) =>
              \A i \in DOMAIN Issues :
                  Issues[i].type \notin {"invalid_type", "invalid_structure"}

C11_Witness ==
    /\ Validated /\ IsDict(held)
    /\ ~HasKey(held, "nodes")
    /\ HasKey(held, "edges") /\ IsList(held.d.edges)
    /\ OnlyIssue("invalid_structure")

(***************************************************************************)
(* C12  Decision-node checks.  In every report validate_flow returns for   *)
(* a flow, every decision node of the node table has a                     *)
(* decision_branch_count issue exactly when it has fewer than 2 outgoing   *)
(* edges, and exactly one missing_condition issue, naming the node and     *)
(* the edge's target, for each outgoing edge whose condition is absent or  *)
(* empty after trimming; the report holds no other issue of these two      *)
(* types.  A report is returned for every flow whose ids, edge ends and    *)
(* conditions have the types of the data model.                            *)
(***************************************************************************)
Count(issue) == Cardinality({i \in DOMAIN Issues : Issues[i] = issue})

CountOfType(type) == Cardinality({i \in DOMAIN Issues : Issues[i].type = type})

BranchCountIssue(id) ==
    [type    |-> "decision_branch_count",
     message |-> "Decision node '" \o Format(id)
                 \o "' should have at least 2 outgoing edges."]

MissingConditionIssue(id, tgt) ==
    [type    |-> "missing_condition",
     message |-> "Decision edge from '" \o Format(id) \o "' to '" \o Format(tgt)
                 \o "' should have a non-empty condition."]

Unconditioned(id) == {j \in OutEdges(id) : ~Conditioned(j)}

C12_DecisionChecks ==
    (Validated /\ IsGraph) =>
        /\ InputsTyped => result.ok
        /\ result.ok =>
              /\ \A id \in IdsOfKind("decision") :
                    /\ Count(BranchCountIssue(id)) =
                          IF Cardinality(OutEdges(id)) < 2 THEN 1 ELSE 0
                    /\ \A j \in OutEdges(id) :
                          Count(MissingConditionIssue(id, Tgt(j))) =
                              Cardinality({m \in Unconditioned(id) :
                                              Tgt(m) = Tgt(j)})
              /\ CountOfType("decision_branch_count") =
                    Cardinality({id \in IdsOfKind("decision") :
                                    Cardinality(OutEdges(id)) < 2})
              /\ CountOfType("missing_condition") =
                    Cardinality(UNION {Unconditioned(id) :
                                          id \in IdsOfKind("decision")})

\* A decision node with an edge conditioned "yes" and an edge with no
\* condition to another target
C12_Witness ==
    /\ Validated /\ IsGraph /\ InputsTyped /\ result.ok
    /\ \E id \in IdsOfKind("decision") : \E j, m \in OutEdges(id) :
          /\ OutEdges(id) = {j, m}
          /\ Get(RawEdges[j], "condition") = S("yes")
          /\ ~HasKey(RawEdges[m], "condition")
          /\ Tgt(j) # Tgt(m)
          /\ Count(MissingConditionIssue(id, Tgt(m))) = 1
          /\ CountOfType("missing_condition") = 1
          /\ CountOfType("decision_branch_count") = 0

(***************************************************************************)
(* C13  No component changes its input.  While a site is in a call and     *)
(* after the call has returned, the description is the one the site        *)
(* passed in, whatever the other sites have done on it meanwhile; and the  *)
(* outcome of every call, with the functions it entered, is the one the    *)
(* same function gives when it runs alone on that description.             *)
(***************************************************************************)
Alone(fn, flow) ==
    CASE fn = "validate_flow" ->
             [out |-> validate_flow(flow), calls |-> <<"validate_flow">>]
      [] fn = "flow_to_mermaid" ->
             [out |-> flow_to_mermaid(flow), calls |-> <<"flow_to_mermaid">>]
      [] fn = "build_task_flow" -> build_task_flow(flow)

C13_InputNeverMutated ==
    \A p \in Sites :
        /\ op[p].pc # "idle" => held = calls[p].given
        /\ op[p].pc = "returned" =>
              /\ result[p] = Alone(op[p].fn, calls[p].given).out
              /\ calls[p].made = Alone(op[p].fn, calls[p].given).calls

\* A site has built the diagram of a valid flow while another site was
\* between two steps of a call on the same description
C13_Witness ==
    \E p, q \in Sites :
        /\ p # q
        /\ op[p] = [fn |-> "build_task_flow", pc |-> "returned"]
        /\ calls[p].made = <<"validate_flow", "flow_to_mermaid">>
        /\ result[p].ok
        /\ result[p] = build_task_flow(held).out
        /\ op[q].pc \in {"adjacency", "checks", "edges"}
        /\ calls[q].given = held

(***************************************************************************)
(* C14  The malformed-edge guard of flow_to_mermaid.  In every diagram     *)
(* the compiler returns for a flow, the lines after the node lines are     *)
(* the connector lines of exactly the edge entries that are maps whose     *)
(* from is present and truthy and whose to is absent or falsy, in input    *)
(* order; every other entry (not a map, lacking a source, or with a        *)
(* target) adds no line.  The compiler returns, with no error, for every   *)
(* flow whose ids, labels and conditions have the types of the data        *)
(* model.                                                                  *)
(***************************************************************************)
Compiled == op = "flow_to_mermaid"

GivenNodes == GetOr(held, "nodes", PyList(<<>>)).items

GivenEdges == GetOr(held, "edges", PyList(<<>>)).items

\* Node ids are hashable; labels and conditions are None or str
CompilerInputsTyped ==
    /\ \A i \in DOMAIN GivenNodes :
          (IsDict(GivenNodes[i]) /\ HasKey(GivenNodes[i], "id")) =>
              /\ Hashable(GivenNodes[i].d.id)
              /\ Get(GivenNodes[i], "label").k \in {"NoneType", "str"}
    /\ \A j \in DOMAIN GivenEdges :
          IsDict(GivenEdges[j]) =>
              Get(GivenEdges[j], "condition").k \in {"NoneType", "str"}

\* A map whose from is present and truthy and whose to is absent or falsy
PassesGuard(e) ==
    /\ IsDict(e)
    /\ HasKey(e, "from") /\ Truthy(e.d.from)
    /\ HasKey(e, "to") => ~Truthy(e.d.to)

GuardedConnectorLines ==
    LET es == SelectSeq(GivenEdges, PassesGuard) IN
    [j \in DOMAIN es |-> ConnectorLine(es[j])]

GuardedDiagram ==
    JoinLines(<<"flowchart TD">>
              \o NodeLines(NodeTable(GivenNodes).val, 1).val
              \o GuardedConnectorLines)

SourceMissingIssue(v) ==
    [type    |-> "edge_source_missing",
     message |-> "Edge has source '" \o Format(v) \o "' which is not a node id."]

TargetMissingIssue(v) ==
    [type    |-> "edge_target_missing",
     message |-> "Edge has target '" \o Format(v) \o "' which is not a node id."]

NoIncomingIssue(id) ==
    [type    |-> "no_incoming_edge",
     message |-> "Node '" \o Format(id)
                 \o "' has no incoming edges and is not the start node."]

NoOutgoingIssue(id) ==
    [type    |-> "no_outgoing_edge",
     message |-> "Node '" \o Format(id)
                 \o "' has no outgoing edges and is not an end node."]

C15_ReferentialChecks ==
    (Validated /\ IsGraph) =>
        /\ InputsTyped => result.ok
        /\ result.ok =>
              /\ \A j \in MapEdges :
                    /\ Count(SourceMissingIssue(Src(j))) =
                          IF Src(j) \in TableIds THEN 0
                          ELSE Cardinality({m \in MapEdges : Src(m) = Src(j)})
                    /\ Count(TargetMissingIssue(Tgt(j))) =
                          IF Tgt(j) \in TableIds THEN 0
                          ELSE Cardinality({m \in MapEdges : Tgt(m) = Tgt(j)})
                    /\ Src(j) \in TableIds => Count(NoOutgoingIssue(Src(j))) = 0
                    /\ Tgt(j) \in TableIds => Count(NoIncomingIssue(Tgt(j))) = 0
              /\ CountOfType("edge_source_missing") =
                    Cardinality({j \in MapEdges : Src(j) \notin TableIds})
              /\ CountOfType("edge_target_missing") =
                    Cardinality({j \in MapEdges : Tgt(j) \notin TableIds})

\* The only edge leaving a node that is not an end node goes to an unknown
\* id, and the only edge entering a node that is not a start node comes
\* from an unknown id
C15_Witness ==
    /\ Validated /\ IsGraph /\ result.ok
    /\ \E j, m \in MapEdges :
          /\ Src(j) \in TableIds /\ Tgt(j) \notin TableIds
          /\ KindOf(Src(j)) # S("end") /\ OutEdges(Src(j)) = {j}
          /\ Count(TargetMissingIssue(Tgt(j))) = 1
          /\ Count(NoOutgoingIssue(Src(j))) = 0
          /\ Tgt(m) \in TableIds /\ Src(m) \notin TableIds
          /\ KindOf(Tgt(m)) # S("start") /\ InEdges(Tgt(m)) = {m}
          /\ Count(SourceMissingIssue(Src(m))) = 1
          /\ Count(NoIncomingIssue(Tgt(m))) = 0

(***************************************************************************)
(* C16  Per-node topology checks, whatever the earlier checks found.  In   *)
(* every report validate_flow returns for a flow, each node of the node    *)
(* table has exactly one no_incoming_edge issue if its type is not start   *)
(* and no edge targets it, and none otherwise; exactly one                 *)
(* no_outgoing_edge issue if its type is not end and no edge leaves it,    *)
(* and none otherwise; and the report holds no other issue of these        *)
(* types.  A report is returned for every flow whose ids, edge ends and    *)
(* conditions have the types of the data model.  So two start nodes and    *)
(* no edges give start_node_count, no_outgoing_edge for each start node    *)
(* and no no_incoming_edge.                                                *)
(***************************************************************************)
LacksIncoming(id) == KindOf(id) # S("start") /\ InEdges(id) = {}

LacksOutgoing(id) == KindOf(id) # S("end") /\ OutEdges(id) = {}

C16_TopologyChecks ==
    (Validated /\ IsGraph) =>
        /\ InputsTyped => result.ok
        /\ result.ok =>
              /\ \A id \in TableIds :
                    /\ Count(NoIncomingIssue(id)) =
                          IF LacksIncoming(id) THEN 1 ELSE 0
                    /\ Count(NoOutgoingIssue(id)) =
                          IF LacksOutgoing(id) THEN 1 ELSE 0
              /\ CountOfType("no_incoming_edge") =
                    Cardinality({id \in TableIds : LacksIncoming(id)})
              /\ CountOfType("no_outgoing_edge") =
                    Cardinality({id \in TableIds : LacksOutgoing(id)})

\* Two start nodes and no edges
C16_Witness ==
    /\ Validated /\ IsGraph /\ result.ok
    /\ RawEdges = <<>>
    /\ TableStartCount = 2 /\ Cardinality(TableIds) = 2
    /\ CountOfType("start_node_count") = 1
    /\ \A id \in TableIds : Count(NoOutgoingIssue(id)) = 1
    /\ CountOfType("no_outgoing_edge") = 2
    /\ CountOfType("no_incoming_edge") = 0

(***************************************************************************)
(* C17  As claimed: in every flow that validate_flow reports valid, every  *)
(* node of the node table can be reached from the start node by following  *)
(* edges from source to target.  A start node and an end node that each    *)
(* have only an edge to themselves refute it.                              *)
(***************************************************************************)
\* The ids reached from the ids of set within n edges
RECURSIVE Reach(_, _)
Reach(set, n) ==
    IF n = 0 THEN set
    ELSE Reach(set \cup {id \in TableIds :
                            \E j \in InEdges(id) : Src(j) \in set}, n - 1)

ReachableIds == Reach(IdsOfKind("start"), Cardinality(TableIds))

C17_Original == ReportedValid => TableIds \subseteq ReachableIds

(***************************************************************************)
(* C17  Amended: in every flow that validate_flow reports valid, every     *)
(* node of the node table other than the start node has an incoming edge   *)
(* whose source is a node of the table; the node need not be reachable     *)
(* from the start node.                                                    *)
(***************************************************************************)
C17_ValidNodesHavePredecessor ==
    ReportedValid =>
        \A id \in TableIds :
            KindOf(id) # S("start") =>
                \E j \in InEdges(id) : Src(j) \in TableIds

\* A valid flow with a node that is not reachable from the start node
C17_Witness ==
    /\ ReportedValid
    /\ \E id \in TableIds :
          /\ id \notin ReachableIds
          /\ \E j \in InEdges(id) : Src(j) \in TableIds

====
